---- MODULE Spec2Model ----
(***************************************************************************)
(* Law-office case management: the data store (database.js), the command   *)
(* handlers of the application shell (ipcMain.handle), the backup          *)
(* operation and the AI advisory bridge.                                   *)
(*                                                                         *)
(* The relational engine is better-sqlite3: every statement is atomic, a   *)
(* constraint violation throws and changes nothing, and foreign keys are   *)
(* enforced (the library is built with SQLITE_DEFAULT_FOREIGN_KEYS=1).     *)
(* JavaScript undefined and null both bind to SQL NULL.                    *)
(***************************************************************************)
EXTENDS Integers, Sequences, FiniteSets, TLC

VARIABLES
    db,          \* the open database: tables and AUTOINCREMENT counters
    pre,         \* history: the tables as they were when the last command started
    last,        \* history: the last command, its argument and how it ended
    now,         \* wall clock, milliseconds since midnight UTC of the model's day
    backups,     \* the backup copies started so far, in order
    job,         \* the 02:00 job of the scheduler: "armed" or "fired"
    apiKey,      \* process.env.API_KEY
    aiPending,   \* ask-ai invocations awaiting the provider
    aiRequests,  \* every payload handed to the provider, in order
    route,       \* the window: the location of the HashRouter
    user,        \* AuthProvider: the held user
    session,     \* sessionStorage, the item 'user'
    loginError,  \* LoginPage: error
    clients,     \* ClientsPage: clients
    cases,       \* CasesPage: cases
    toast,       \* MainAppLayout: toastMessage, the parts of its text (none: '')
    timers,      \* the number of pending timers of showToast
    aiMessages,  \* MainAppLayout: aiMessages
    isAiLoading, \* MainAppLayout: isAiLoading
    calls        \* the window's invocations that await their answer, oldest first

\* the state of the window
uiVars ==
    <<route, user, session, loginError, clients, cases, toast, timers, aiMessages,
      isAiLoading, calls>>

vars == <<db, pre, last, now, backups, job, apiKey, aiPending, aiRequests, uiVars>>

-----------------------------------------------------------------------------
(* Bounds of the model *)

\* highest id the AUTOINCREMENT counters of Clients and Cases may hand out
MaxRowId == 2
\* number of backup invocations in one behaviour
MaxBackups == 2
\* number of ask-ai invocations that reach the provider in one behaviour
MaxAiCalls == 2
\* whole seconds the clock may run
MaxSeconds == 2
\* single-millisecond ticks followed after the start of a second
MaxMs == 1
\* invocations of the window that may await their answer at one time
MaxInFlight == 2
\* highest id the forms of the window may get for the rows they add
MaxFormRows == 1
\* prompts that may be sent in one chat
MaxChatTurns == 2
\* toast timers that may be pending at one time
MaxTimers == 2

-----------------------------------------------------------------------------
(* Values *)

\* SQL NULL in a TEXT column, and JavaScript null in a result
Null == "<NULL>"
\* JavaScript undefined: a property the caller left out
Undefined == "<undefined>"
\* SQL NULL in an INTEGER column (rowids handed out by AUTOINCREMENT start at 1)
NullId == 0

\* better-sqlite3 binds undefined and null alike as NULL
Bind(v) == IF v = Undefined THEN Null ELSE v

\* the texts of the model in the order of SQLite's BINARY collation
Collation == <<"", "a", "b", "e", "n1", "n2", "p", "x">>

TextRank(s) == CHOOSE i \in DOMAIN Collation : Collation[i] = s

\* ORDER BY on a TEXT column: NULL sorts before every text
TextLess(s, t) ==
    /\ t # Null
    /\ \/ s = Null
       \/ TextRank(s) < TextRank(t)

-----------------------------------------------------------------------------
(* database.js: the schema and the statements *)

\* what a service function does: it returns a value, or it throws an Error;
\* db is the database afterwards (unchanged when the statement threw)
Return(v, d) == [threw |-> FALSE, value |-> v, db |-> d]
Throw(m, d)  == [threw |-> TRUE, message |-> m, db |-> d]

\* INTEGER PRIMARY KEY AUTOINCREMENT: one more than the largest rowid ever used
NextRowId(seq, rows) ==
    LET used == {seq} \cup {r.id : r \in rows}
    IN  (CHOOSE m \in used : \A u \in used : u <= m) + 1

\* the Clients constraints without UNIQUE on email
ClientsViolation_notUnique(others, row) ==
    IF row.name = Null THEN "NOT NULL constraint failed: Clients.name" ELSE ""

\* the constraint a Clients row violates, "" when none:
\* name TEXT NOT NULL, email TEXT UNIQUE (NULLs are distinct from each other)
ClientsViolation(others, row) ==
    IF row.name = Null THEN "NOT NULL constraint failed: Clients.name"
    ELSE IF row.email # Null /\ \E o \in others : o.email = row.email
         THEN "UNIQUE constraint failed: Clients.email"
    ELSE ""

\* the Cases constraints without UNIQUE on case_number
CasesViolation_notUnique(others, parents, row) ==
    IF row.case_number = Null THEN "NOT NULL constraint failed: Cases.case_number"
    ELSE IF row.client_id # NullId /\ ~ \E c \in parents : c.id = row.client_id
         THEN "FOREIGN KEY constraint failed"
    ELSE ""

\* the Cases constraints on a connection that does not enforce foreign keys
CasesViolation_noForeignKey(others, parents, row) ==
    IF row.case_number = Null THEN "NOT NULL constraint failed: Cases.case_number"
    ELSE IF \E o \in others : o.case_number = row.case_number
         THEN "UNIQUE constraint failed: Cases.case_number"
    ELSE ""

\* the constraint a Cases row violates, "" when none: case_number TEXT UNIQUE
\* NOT NULL, FOREIGN KEY (client_id) REFERENCES Clients(id)
CasesViolation(others, parents, row) ==
    IF row.case_number = Null THEN "NOT NULL constraint failed: Cases.case_number"
    ELSE IF \E o \in others : o.case_number = row.case_number
         THEN "UNIQUE constraint failed: Cases.case_number"
    ELSE IF row.client_id # NullId /\ ~ \E c \in parents : c.id = row.client_id
         THEN "FOREIGN KEY constraint failed"
    ELSE ""

\* every ordering of rows that ORDER BY name allows (rows of equal name come
\* in an order SQL leaves open)
OrderedByName(rows) ==
    LET n == Cardinality(rows)
    IN  {s \in [1..n -> rows] :
            /\ \A i, j \in 1..n : i # j => s[i] # s[j]
            /\ \A i, j \in 1..n : i < j => ~ TextLess(s[j].name, s[i].name)}

\* the one ordering of rows by id, largest first (ORDER BY id DESC)
RECURSIVE OrderedByIdDesc(_)
OrderedByIdDesc(rows) ==
    IF rows = {} THEN <<>>
    ELSE LET top == CHOOSE r \in rows : \A o \in rows : o.id <= r.id
         IN  <<top>> \o OrderedByIdDesc(rows \ {top})

\* SELECT * FROM Clients ORDER BY name
getClients(d) == OrderedByName(d.Clients)

\* SELECT id, name FROM Clients ORDER BY name
getClientList(d) ==
    {[i \in DOMAIN s |-> [id |-> s[i].id, name |-> s[i].name]] : s \in OrderedByName(d.Clients)}

\* addClient that binds phone and email in each other's place
addClient_swapped(d, c) ==
    LET row == [id |-> NextRowId(d.seq.Clients, d.Clients), name |-> Bind(c.name),
                phone |-> Bind(c.email), email |-> Bind(c.phone),
                address |-> Bind(c.address)]
        bad == ClientsViolation(d.Clients, row)
    IN  IF bad # "" THEN Throw(bad, d)
        ELSE Return([id |-> row.id, name |-> c.name, phone |-> c.phone,
                     email |-> c.email, address |-> c.address],
                    [d EXCEPT !.Clients = @ \cup {row}, !.seq.Clients = row.id])

addClient(d, c) ==
    LET row == [id |-> NextRowId(d.seq.Clients, d.Clients), name |-> Bind(c.name),
                phone |-> Bind(c.phone), email |-> Bind(c.email),
                address |-> Bind(c.address)]
        bad == ClientsViolation(d.Clients, row)
    IN  IF bad # "" THEN Throw(bad, d)
        ELSE Return([id |-> row.id, name |-> c.name, phone |-> c.phone,
                     email |-> c.email, address |-> c.address],
                    [d EXCEPT !.Clients = @ \cup {row}, !.seq.Clients = row.id])

updateClient(d, c) ==
    LET hit == {r \in d.Clients : c.id # NullId /\ r.id = c.id}
        upd(r) == [id |-> r.id, name |-> Bind(c.name), phone |-> Bind(c.phone),
                   email |-> Bind(c.email), address |-> Bind(c.address)]
        bad == IF hit = {} THEN ""
               ELSE LET r == CHOOSE r \in hit : TRUE
                    IN  ClientsViolation(d.Clients \ hit, upd(r))
    IN  IF bad # "" THEN Throw(bad, d)
        ELSE Return([id |-> c.id, name |-> c.name, phone |-> c.phone,
                     email |-> c.email, address |-> c.address],
                    [d EXCEPT !.Clients = (@ \ hit) \cup {upd(r) : r \in hit}])

\* deleteClient that removes the cases of the client along with it
deleteClient_cascade(d, id) ==
    LET hit == {r \in d.Clients : id # NullId /\ r.id = id}
    IN  Return([success |-> Cardinality(hit) > 0],
               [d EXCEPT !.Cases = {k \in @ : id = NullId \/ k.client_id # id},
                         !.Clients = @ \ hit])

deleteClient(d, id) ==
    LET \* UPDATE Cases SET client_id = NULL WHERE client_id = ?
        cleared == {IF id # NullId /\ k.client_id = id
                    THEN [k EXCEPT !.client_id = NullId] ELSE k : k \in d.Cases}
        \* DELETE FROM Clients WHERE id = ?
        hit == {r \in d.Clients : id # NullId /\ r.id = id}
    IN  Return([success |-> Cardinality(hit) > 0],
               [d EXCEPT !.Cases = cleared, !.Clients = @ \ hit])

\* SELECT c.id, c.case_number, c.description, c.status, cl.name AS client_name
\* FROM Cases c LEFT JOIN Clients cl ON c.client_id = cl.id ORDER BY c.id DESC
getCases(d) ==
    LET joined(k) ==
            LET cl == {c \in d.Clients : k.client_id # NullId /\ c.id = k.client_id}
            IN  [id |-> k.id, case_number |-> k.case_number,
                 description |-> k.description, status |-> k.status,
                 client_name |-> IF cl = {} THEN Null ELSE (CHOOSE c \in cl : TRUE).name]
    IN  OrderedByIdDesc({joined(k) : k \in d.Cases})

addCase(d, k) ==
    LET row == [id |-> NextRowId(d.seq.Cases, d.Cases), case_number |-> Bind(k.case_number),
                client_id |-> k.client_id, description |-> Bind(k.description),
                status |-> Bind(k.status)]
        bad == CasesViolation(d.Cases, d.Clients, row)
    IN  IF bad # "" THEN Throw(bad, d)
        ELSE Return([id |-> row.id, case_number |-> k.case_number,
                     client_id |-> k.client_id, description |-> k.description,
                     status |-> k.status],
                    [d EXCEPT !.Cases = @ \cup {row}, !.seq.Cases = row.id])

updateCase(d, k) ==
    LET hit == {r \in d.Cases : k.id # NullId /\ r.id = k.id}
        upd(r) == [id |-> r.id, case_number |-> Bind(k.case_number),
                   client_id |-> k.client_id, description |-> Bind(k.description),
                   status |-> Bind(k.status)]
        bad == IF hit = {} THEN ""
               ELSE LET r == CHOOSE r \in hit : TRUE
                    IN  CasesViolation(d.Cases \ hit, d.Clients, upd(r))
    IN  IF bad # "" THEN Throw(bad, d)
        ELSE Return([id |-> k.id, case_number |-> k.case_number,
                     client_id |-> k.client_id, description |-> k.description,
                     status |-> k.status],
                    [d EXCEPT !.Cases = (@ \ hit) \cup {upd(r) : r \in hit}])

\* deleteCase on a connection that does not enforce the foreign keys
deleteCase_nocascade(d, id) ==
    LET hit == {r \in d.Cases : id # NullId /\ r.id = id}
    IN  Return([success |-> Cardinality(hit) > 0], [d EXCEPT !.Cases = @ \ hit])

deleteCase(d, id) ==
    LET hit == {r \in d.Cases : id # NullId /\ r.id = id}
        gone == {r.id : r \in hit}
    IN  \* ON DELETE CASCADE of Appointments.case_id and Invoices.case_id
        Return([success |-> Cardinality(hit) > 0],
               [d EXCEPT !.Cases = @ \ hit,
                         !.Appointments = {a \in @ : a.case_id \notin gone},
                         !.Invoices = {v \in @ : v.case_id \notin gone}])

-----------------------------------------------------------------------------
(* Dates and times as text. A text that is formatted or compared character *)
(* by character is a sequence of one-character strings.                    *)

Digits == <<"0", "1", "2", "3", "4", "5", "6", "7", "8", "9">>

DigitValue(c) == (CHOOSE i \in DOMAIN Digits : Digits[i] = c) - 1

Pad2(n) == <<Digits[((n \div 10) % 10) + 1], Digits[(n % 10) + 1]>>

Pad3(n) == <<Digits[((n \div 100) % 10) + 1]>> \o Pad2(n % 100)

\* the calendar day of the model (the clock stays within it)
Day == <<"2", "0", "2", "6", "-", "1", "1", "-", "0", "2">>

MsPerSecond == 1000
MsPerHour == 3600 * MsPerSecond

ClockText(t) ==
    Pad2(t \div MsPerHour) \o <<":">> \o Pad2((t \div (60 * MsPerSecond)) % 60)
        \o <<":">> \o Pad2((t \div MsPerSecond) % 60)

\* Date.prototype.toISOString: YYYY-MM-DDTHH:MM:SS.mmmZ
toISOString(t) == Day \o <<"T">> \o ClockText(t) \o <<".">> \o Pad3(t % MsPerSecond) \o <<"Z">>

\* SQLite datetime('now'): YYYY-MM-DD HH:MM:SS, the milliseconds dropped
SqlDatetime(t) == Day \o <<" ">> \o ClockText(t)

\* String.prototype.replace(/[:.]/g, '-')
ReplaceColonsAndDots(s) == [i \in DOMAIN s |-> IF s[i] \in {":", "."} THEN "-" ELSE s[i]]

\* the byte of a character (ASCII)
CharCode(c) ==
    CASE c = " " -> 32
      [] c = "-" -> 45
      [] c = "." -> 46
      [] c = ":" -> 58
      [] c = "T" -> 84
      [] c = "Z" -> 90
      [] OTHER   -> 48 + DigitValue(c)

\* s < t in SQLite's BINARY collation: memcmp, then the shorter text first
BinaryLess(s, t) ==
    \E i \in 1..(Len(t)) :
        /\ i <= Len(s) + 1
        /\ \A j \in 1..(i - 1) : s[j] = t[j]
        /\ \/ i = Len(s) + 1
           \/ CharCode(s[i]) < CharCode(t[i])

-----------------------------------------------------------------------------
(* database.js: login, statistics, backup *)

\* bcrypt: a hash carries its salt; the digest is determined by salt and password
hashSync(password, salt) == [salt |-> salt, digest |-> <<salt, password>>]

compareSync(password, hash) == hashSync(password, hash.salt) = hash

\* the user seeded by init() into a new database
DefaultAdmin ==
    [id |-> 1, username |-> "admin", password |-> hashSync("admin123", "salt1"),
     role |-> "Admin"]

\* attemptLogin with a message of its own for the wrong password
attemptLogin_leaky(d, username, password) ==
    LET found == {u \in d.Users : u.username = Bind(username)}
    IN  IF found = {}
        THEN Throw("The username or the password is incorrect.", d)
        ELSE LET stored == CHOOSE u \in found : TRUE
             IN  IF ~ compareSync(password, stored.password)
                 THEN Throw("The password is incorrect.", d)
                 ELSE Return([id |-> stored.id, username |-> stored.username,
                              role |-> stored.role], d)

attemptLogin(d, username, password) ==
    LET found == {u \in d.Users : u.username = Bind(username)}
    IN  IF found = {}
        THEN Throw("The username or the password is incorrect.", d)
        ELSE LET stored == CHOOSE u \in found : TRUE
             IN  IF ~ compareSync(password, stored.password)
                 THEN Throw("The username or the password is incorrect.", d)
                 ELSE \* const { password: _, ...safeUser } = user
                      Return([id |-> stored.id, username |-> stored.username,
                              role |-> stored.role], d)

\* getDashboardStats with date >= datetime('now')
getDashboardStats_notStrict(d, t) ==
    Return([casesCount |-> Cardinality(d.Cases),
            upcomingAppointments |->
                Cardinality({a \in d.Appointments : ~ BinaryLess(a.date, SqlDatetime(t))}),
            activeClients |-> Cardinality(d.Clients)], d)

getDashboardStats(d, t) ==
    Return([casesCount |-> Cardinality(d.Cases),
            upcomingAppointments |->
                Cardinality({a \in d.Appointments : BinaryLess(SqlDatetime(t), a.date)}),
            activeClients |-> Cardinality(d.Clients)], d)

\* path.join(backupsDir, `backup-${timestamp}.db`)
BackupPath(t) ==
    [dir |-> "backups",
     file |-> <<"b", "a", "c", "k", "u", "p", "-">> \o ReplaceColonsAndDots(toISOString(t))
              \o <<".", "d", "b">>]

\* a copy that is awaited: it has finished when backupDatabase returns
StartCopy_awaited(path, by) ==
    [path |-> path, by |-> by,
     logged |-> <<[level |-> "log", text |-> "Backup successful!", err |-> Null]>>]

\* db.backup(backupPath): the promise of a copy to path that has just been
\* started; logged is what its .then or .catch has written to the console
StartCopy(path, by) == [path |-> path, by |-> by, logged |-> <<>>]

\* the .then and .catch of the copy's promise: one line on the console
CopyLog(err) ==
    IF err = Null THEN [level |-> "log", text |-> "Backup successful!", err |-> Null]
    ELSE [level |-> "error", text |-> "Backup failed:", err |-> err]

\* starts the copy and returns at once; the copy settles later on its own
backupDatabase(d, t) == Return([success |-> TRUE, path |-> BackupPath(t)], d)

-----------------------------------------------------------------------------
(* The command handlers of the application shell (ipcMain.handle) *)

\* how an invocation ends for the caller of ipcRenderer.invoke
Resolved(e) == [kind |-> "resolved", envelope |-> e]
Rejected(m) == [kind |-> "rejected", error |-> m]

FailureEnvelope(m) == [success |-> FALSE, message |-> m]

\* a handler's result: what the caller gets, and the database afterwards
Answer(o, d) == [outcome |-> o, db |-> d]

OnLogin(d, cred) ==
    LET r == attemptLogin(d, cred.username, cred.password)
    IN  IF r.threw THEN Answer(Resolved(FailureEnvelope(r.message)), r.db)
        ELSE Answer(Resolved([success |-> TRUE, user |-> r.value]), r.db)

OnGetStats(d, t) ==
    LET r == getDashboardStats(d, t)
    IN  IF r.threw THEN Answer(Resolved(FailureEnvelope(r.message)), r.db)
        ELSE Answer(Resolved([success |-> TRUE, stats |-> r.value]), r.db)

OnManualBackup(d, t) ==
    LET r == backupDatabase(d, t)
    IN  IF r.threw
        THEN Answer(Resolved(FailureEnvelope(<<"Backup failed: ", r.message>>)), r.db)
        ELSE Answer(Resolved([success |-> TRUE,
                              message |-> <<"Backup created at: ", r.value.path>>]), r.db)

\* list is the result of db.getClients()
OnGetClients(d, list) == Answer(Resolved([success |-> TRUE, clients |-> list]), d)

\* list is the result of db.getClientList()
OnGetClientList(d, list) == Answer(Resolved([success |-> TRUE, clientList |-> list]), d)

OnAddClient(d, c) ==
    LET r == addClient(d, c)
    IN  IF r.threw THEN Answer(Resolved(FailureEnvelope(r.message)), r.db)
        ELSE Answer(Resolved([success |-> TRUE, client |-> r.value]), r.db)

\* update-client without the try/catch: the service's Error crosses the boundary
OnUpdateClient_unguarded(d, c) ==
    LET r == updateClient(d, c)
    IN  IF r.threw THEN Answer(Rejected(r.message), r.db)
        ELSE Answer(Resolved([success |-> TRUE, client |-> r.value]), r.db)

OnUpdateClient(d, c) ==
    LET r == updateClient(d, c)
    IN  IF r.threw THEN Answer(Resolved(FailureEnvelope(r.message)), r.db)
        ELSE Answer(Resolved([success |-> TRUE, client |-> r.value]), r.db)

OnDeleteClient(d, id) ==
    LET r == deleteClient(d, id)
    IN  IF r.threw THEN Answer(Resolved(FailureEnvelope(r.message)), r.db)
        ELSE Answer(Resolved([success |-> r.value.success]), r.db)

OnGetCases(d) == Answer(Resolved([success |-> TRUE, cases |-> getCases(d)]), d)

OnAddCase(d, k) ==
    LET r == addCase(d, k)
    IN  IF r.threw THEN Answer(Resolved(FailureEnvelope(r.message)), r.db)
        ELSE Answer(Resolved([success |-> TRUE, case |-> r.value]), r.db)

OnUpdateCase(d, k) ==
    LET r == updateCase(d, k)
    IN  IF r.threw THEN Answer(Resolved(FailureEnvelope(r.message)), r.db)
        ELSE Answer(Resolved([success |-> TRUE, case |-> r.value]), r.db)

OnDeleteCase(d, id) ==
    LET r == deleteCase(d, id)
    IN  IF r.threw THEN Answer(Resolved(FailureEnvelope(r.message)), r.db)
        ELSE Answer(Resolved([success |-> r.value.success]), r.db)

\* ask-ai, up to the await: !process.env.API_KEY holds for a missing and for
\* an empty credential
\* the credential check that only looks for a missing variable
AiConfigured_definedOnly(key) == key # Undefined

AiConfigured(key) == key \notin {Undefined, ""}

AiPayload(prompt) ==
    [model |-> "gemini-2.5-flash", contents |-> prompt,
     systemInstruction |-> "expert assistant in Egyptian law; discloses it is an AI"]

\* ask-ai, after the await: reply is what ai.models.generateContent gave
OnAiReply(reply) ==
    IF reply.threw THEN Resolved(FailureEnvelope(reply.message))
    ELSE Resolved([success |-> TRUE, text |-> reply.text])

-----------------------------------------------------------------------------
(* What the pages render *)

\* CasesPage, the client column: {caseItem.client_name || unassigned}
ClientCell(row) == IF row.client_name \in {Null, ""} THEN "unassigned" ELSE row.client_name

\* JavaScript null where a user record is expected
NoUser == [id |-> NullId, username |-> Null, role |-> Null]

\* sessionStorage.getItem of an item that is not there
NoItem == <<>>

\* JSON.stringify of a user record: a text that JSON.parse gives back as the
\* record; JSON.parse(null) is null
JSONstringify(v) == <<"json", v>>

JSONparse(text) == IF text = NoItem THEN NoUser ELSE text[2]

\* the message the chat opens with
Greeting == [sender |-> "ai", text |-> <<"greeting">>]

-----------------------------------------------------------------------------
(* State *)

\* init() on a machine without app_data.db: the schema and the default admin
NewDatabase ==
    [Users |-> {DefaultAdmin}, Clients |-> {}, Cases |-> {}, Appointments |-> {},
     Invoices |-> {}, seq |-> [Clients |-> 0, Cases |-> 0]]

TwoAM == 2 * MsPerHour

\* the clock starts one millisecond before 02:00
ClockStart == TwoAM - 1

NoCommand == [op |-> "none", arg |-> Undefined, outcome |-> [kind |-> "none"]]

\* the state once app.whenReady has run db.init() on the database file dbFile
\* with the credential key in the environment
Ready(dbFile, key) ==
    /\ db = dbFile
    /\ pre = dbFile
    /\ last = NoCommand
    /\ now = ClockStart
    /\ backups = <<>>
    /\ job = "armed"
    /\ apiKey = key
    /\ aiPending = {}
    /\ aiRequests = <<>>
    \* the window has opened and, holding no user, has settled on the login view
    /\ session = NoItem
    /\ user = JSONparse(NoItem)
    /\ route = "/login"
    /\ loginError = ""
    /\ clients = <<>>
    /\ cases = <<>>
    /\ toast = <<>>
    /\ timers = 0
    /\ aiMessages = <<Greeting>>
    /\ isAiLoading = FALSE
    /\ calls = <<>>

-----------------------------------------------------------------------------
(* Actions: one per command, plus the clock, the scheduler, the environment *)
(* and the AI provider                                                     *)

\* a command handled from start to end: a is the handler's Answer
Handled(op, arg, a) ==
    /\ db' = a.db
    /\ pre' = db
    /\ last' = [op |-> op, arg |-> arg, outcome |-> a.outcome]
    /\ UNCHANGED <<now, backups, job, apiKey, aiPending, aiRequests, uiVars>>

Login(cred) == Handled("login", cred, OnLogin(db, cred))

GetStats == Handled("get-stats", now, OnGetStats(db, now))

GetClients == \E list \in getClients(db) : Handled("get-clients", Undefined, OnGetClients(db, list))

GetClientList ==
    \E list \in getClientList(db) : Handled("get-client-list", Undefined, OnGetClientList(db, list))

\* the AUTOINCREMENT counter is capped at MaxRowId
AddClient(c) ==
    /\ addClient(db, c).threw \/ db.seq.Clients < MaxRowId
    /\ Handled("add-client", c, OnAddClient(db, c))

UpdateClient(c) == Handled("update-client", c, OnUpdateClient(db, c))

DeleteClient(id) == Handled("delete-client", id, OnDeleteClient(db, id))

GetCases == Handled("get-cases", Undefined, OnGetCases(db))

AddCase(k) ==
    /\ addCase(db, k).threw \/ db.seq.Cases < MaxRowId
    /\ Handled("add-case", k, OnAddCase(db, k))

UpdateCase(k) == Handled("update-case", k, OnUpdateCase(db, k))

DeleteCase(id) == Handled("delete-case", id, OnDeleteCase(db, id))

\* db.backup(path) of backupDatabase starts a copy to path
ManualBackup ==
    /\ Len(backups) < MaxBackups
    /\ LET a == OnManualBackup(db, now)
       IN  /\ backups' = Append(backups, StartCopy(backupDatabase(db, now).value.path,
                                                      "manual-backup"))
           /\ db' = a.db
           /\ pre' = db
           /\ last' = [op |-> "manual-backup", arg |-> now, outcome |-> a.outcome]
    /\ UNCHANGED <<now, job, apiKey, aiPending, aiRequests, uiVars>>

\* schedule.scheduleJob('0 2 * * *', ...): once, at 02:00:00 or as soon after
\* as the event loop gets to it
ScheduledBackup ==
    /\ job = "armed"
    /\ now >= TwoAM
    /\ Len(backups) < MaxBackups
    /\ job' = "fired"
    /\ backups' = Append(backups, StartCopy(backupDatabase(db, now).value.path, "schedule"))
    /\ UNCHANGED <<db, pre, last, now, apiKey, aiPending, aiRequests, uiVars>>

\* the copy of backup i ends, well (err is NULL) or with the error err, and
\* the callback on its promise logs that
CopySettles(i, err) ==
    /\ i \in DOMAIN backups
    /\ backups[i].logged = <<>>
    /\ backups' = [backups EXCEPT ![i].logged = <<CopyLog(err)>>]
    /\ UNCHANGED <<db, pre, last, now, job, apiKey, aiPending, aiRequests, uiVars>>

\* time passes: by one millisecond, or by a second
Tick ==
    /\ \E d \in {1, MsPerSecond} :
          /\ now + d <= ClockStart + MaxSeconds * MsPerSecond
          /\ d = 1 => (now + d) % MsPerSecond <= MaxMs
          /\ now' = now + d
    /\ UNCHANGED <<db, pre, last, backups, job, apiKey, aiPending, aiRequests, uiVars>>

\* the environment: the credential is set, emptied or removed
SetApiKey(key) ==
    /\ key # apiKey
    /\ apiKey' = key
    /\ UNCHANGED <<db, pre, last, now, backups, job, aiPending, aiRequests, uiVars>>

\* ask-ai up to its await: the credential check, then the call of the provider
BeginAskAi(prompt) ==
    /\ pre' = db
    /\ IF ~ AiConfigured(apiKey)
       THEN /\ last' = [op |-> "ask-ai", arg |-> prompt,
                        outcome |-> Resolved(FailureEnvelope("The AI API key is not configured."))]
            /\ UNCHANGED <<aiPending, aiRequests>>
       ELSE /\ Len(aiRequests) < MaxAiCalls
            /\ aiRequests' = Append(aiRequests, [apiKey |-> apiKey, payload |-> AiPayload(prompt)])
            /\ aiPending' = aiPending \cup {Len(aiRequests) + 1}
            /\ last' = [op |-> "ask-ai", arg |-> prompt, outcome |-> [kind |-> "pending"]]
    /\ UNCHANGED <<db, now, backups, job, apiKey>>

AskAi(prompt) == BeginAskAi(prompt) /\ UNCHANGED uiVars

\* the provider answers request i, or the call fails (network, auth, quota),
\* and ask-ai runs from its await to its end
EndAskAi(i, reply) ==
    /\ i \in aiPending
    /\ aiPending' = aiPending \ {i}
    /\ pre' = db
    /\ last' = [op |-> "ask-ai", arg |-> aiRequests[i].payload.contents,
                outcome |-> OnAiReply(reply)]
    /\ UNCHANGED <<db, now, backups, job, apiKey, aiRequests>>

AiReplies(i, reply) == EndAskAi(i, reply) /\ UNCHANGED uiVars

-----------------------------------------------------------------------------
(* The window: the routes, the login page and the session. An invocation   *)
(* of the window is handled by the main process in the step that sends it  *)
(* (the handlers run to their end in the order the invocations arrive,     *)
(* ask-ai up to its await); its answer then travels back and is in calls   *)
(* until the window takes it.                                              *)

mainVars == <<db, pre, last, now, backups, job, apiKey, aiPending, aiRequests>>

\* the main process handles an invocation of the window: a is the handler's
\* Answer (the history of the commands is kept for the command surface alone)
Serve(a) ==
    /\ db' = a.db
    /\ UNCHANGED <<pre, last, now, backups, job, apiKey, aiPending, aiRequests>>

\* an invocation with how it ended; alive are the components whose handlers
\* wait for the answer and that have stayed mounted since (a state setter of
\* a component that was unmounted does nothing)
Call(op, alive, outcome) == [op |-> op, alive |-> alive, outcome |-> outcome]

\* calls without its i-th element
Without(cs, i) == [j \in 1..(Len(cs) - 1) |-> IF j < i THEN cs[j] ELSE cs[j + 1]]

\* a property of an envelope, undefined when the envelope has none of the name
Property(e, name) == IF name \in DOMAIN e THEN e[name] ELSE Undefined

\* the routes of App without ProtectedRoute
Mounted_unguarded(r, u) ==
    IF r = "/login" THEN {"LoginPage"}
    ELSE {"MainAppLayout"} \cup (CASE r = "/clients" -> {"ClientsPage"}
                                  [] r = "/cases" -> {"CasesPage"}
                                  [] OTHER -> {})

\* App, ProtectedRoute and the routes of MainAppLayout: the components that
\* are mounted at the location r while u is the held user (the Dashboard,
\* whose statistics no other component reads, is left out)
Mounted(r, u) ==
    IF r = "/login" THEN {"LoginPage"}
    ELSE IF u = NoUser THEN {"Navigate"}
    ELSE {"MainAppLayout"} \cup (CASE r = "/clients" -> {"ClientsPage"}
                                  [] r = "/cases" -> {"CasesPage"}
                                  [] OTHER -> {})

\* the window renders the location r with the user u, the components in was
\* having been mounted before and cs being the invocations not answered yet:
\* a component that stays keeps its state, one that goes loses it, and a page
\* that comes fetches its list (useEffect(() => { fetchClients(); }, []))
Render(was, r, u, cs) ==
    LET will == Mounted(r, u)
        stay == was \cap will
        heard == [i \in DOMAIN cs |-> [cs[i] EXCEPT !.alive = @ \cap stay]]
    IN  /\ route' = r
        /\ user' = u
        /\ loginError' = IF "LoginPage" \in stay THEN loginError ELSE ""
        /\ clients' = IF "ClientsPage" \in stay THEN clients ELSE <<>>
        /\ cases' = IF "CasesPage" \in stay THEN cases ELSE <<>>
        /\ toast' = IF "MainAppLayout" \in stay THEN toast ELSE <<>>
        /\ timers' = IF "MainAppLayout" \in stay THEN timers ELSE 0
        /\ aiMessages' = IF "MainAppLayout" \in stay THEN aiMessages ELSE <<Greeting>>
        /\ isAiLoading' = IF "MainAppLayout" \in stay THEN isAiLoading ELSE FALSE
        /\ IF "ClientsPage" \in will \ was
           THEN /\ Len(cs) < MaxInFlight
                /\ \E list \in getClients(db) :
                      LET a == OnGetClients(db, list)
                      IN  /\ Serve(a)
                          /\ calls' = Append(heard, Call("get-clients", will, a.outcome))
           ELSE IF "CasesPage" \in will \ was
           THEN /\ Len(cs) < MaxInFlight
                /\ LET a == OnGetCases(db)
                   IN  /\ Serve(a)
                       /\ calls' = Append(heard, Call("get-cases", will, a.outcome))
           ELSE /\ calls' = heard
                /\ UNCHANGED mainVars

\* the location or the held user changes
Show(r, u, cs) == Render(Mounted(route, user), r, u, cs)

\* a NavLink of the sidebar, or the location's hash set by any other means
Go(r) ==
    /\ r # route
    /\ Show(r, user, calls)
    /\ UNCHANGED session

\* <Navigate to="/login" />
Redirect ==
    /\ "Navigate" \in Mounted(route, user)
    /\ Show("/login", user, calls)
    /\ UNCHANGED session

\* the window is loaded again: AuthProvider starts from sessionStorage, every
\* component is mounted anew, and the answers to the old page's invocations
\* find nobody
Reload ==
    /\ Render({}, route, JSONparse(session), <<>>)
    /\ UNCHANGED session

\* LoginPage.handleLogin up to its await
SubmitLogin(cred) ==
    /\ "LoginPage" \in Mounted(route, user)
    /\ IF cred.username = "" \/ cred.password = ""
       THEN /\ loginError' = "Please enter the username and the password."
            /\ UNCHANGED <<mainVars, calls>>
       ELSE /\ Len(calls) < MaxInFlight
            /\ loginError' = ""
            /\ LET a == OnLogin(db, cred)
               IN  /\ Serve(a)
                   /\ calls' = Append(calls, Call("login", Mounted(route, user), a.outcome))
    /\ UNCHANGED <<route, user, session, clients, cases, toast, timers, aiMessages, isAiLoading>>

\* LoginPage.handleLogin after its await, with AuthProvider.login
LoginAnswered(i) ==
    /\ i \in DOMAIN calls
    /\ calls[i].op = "login"
    /\ LET result == calls[i].outcome.envelope
       IN  IF result.success
           THEN /\ session' = JSONstringify(result.user)
                /\ Show("/", result.user, Without(calls, i))
           ELSE /\ loginError' =
                       IF "LoginPage" \notin calls[i].alive THEN loginError
                       ELSE IF Property(result, "message") \in {Undefined, ""}
                            THEN "An unexpected error occurred."
                            ELSE result.message
                /\ calls' = Without(calls, i)
                /\ UNCHANGED <<mainVars, route, user, session, clients, cases, toast, timers,
                               aiMessages, isAiLoading>>

\* AuthProvider.logout, from the button of the sidebar
Logout ==
    /\ "MainAppLayout" \in Mounted(route, user)
    /\ session' = NoItem
    /\ Show("/login", NoUser, calls)

\* MainAppLayout.showToast, called by a handler whose components in alive are
\* still mounted: the message is shown and a timer is set to take it away
showToast(alive, message) ==
    IF "MainAppLayout" \in alive
    THEN /\ timers < MaxTimers
         /\ toast' = message
         /\ timers' = timers + 1
    ELSE UNCHANGED <<toast, timers>>

\* setTimeout(() => setToastMessage(''), 4000): a timer fires
ToastTimerFires ==
    /\ timers > 0
    /\ toast' = <<>>
    /\ timers' = timers - 1
    /\ UNCHANGED <<mainVars, route, user, session, loginError, clients, cases, aiMessages,
                   isAiLoading, calls>>

\* ClientsPage.fetchClients after its await
FetchClientsAnswered(i) ==
    /\ i \in DOMAIN calls
    /\ calls[i].op = "get-clients"
    /\ LET result == calls[i].outcome.envelope
       IN  IF result.success
           THEN /\ clients' = IF "ClientsPage" \in calls[i].alive THEN result.clients
                              ELSE clients
                /\ UNCHANGED <<toast, timers>>
           ELSE /\ showToast(calls[i].alive,
                             <<"Failed to fetch the clients: ", Property(result, "message")>>)
                /\ UNCHANGED clients
    /\ calls' = Without(calls, i)
    /\ UNCHANGED <<mainVars, route, user, session, loginError, cases, aiMessages, isAiLoading>>

\* CasesPage.fetchCases after its await
FetchCasesAnswered(i) ==
    /\ i \in DOMAIN calls
    /\ calls[i].op = "get-cases"
    /\ LET result == calls[i].outcome.envelope
       IN  IF result.success
           THEN /\ cases' = IF "CasesPage" \in calls[i].alive THEN result.cases ELSE cases
                /\ UNCHANGED <<toast, timers>>
           ELSE /\ showToast(calls[i].alive,
                             <<"Failed to fetch the cases: ", Property(result, "message")>>)
                /\ UNCHANGED cases
    /\ calls' = Without(calls, i)
    /\ UNCHANGED <<mainVars, route, user, session, loginError, clients, aiMessages, isAiLoading>>

\* fetchClients() called by a handler that took answer i: get-clients is
\* sent, and its answer will be taken by the same components
RefetchClients(i) ==
    \E list \in getClients(db) :
        LET a == OnGetClients(db, list)
        IN  /\ Serve(a)
            /\ calls' = Append(Without(calls, i), Call("get-clients", calls[i].alive, a.outcome))

\* fetchCases() called by a handler that took answer i
RefetchCases(i) ==
    LET a == OnGetCases(db)
    IN  /\ Serve(a)
        /\ calls' = Append(Without(calls, i), Call("get-cases", calls[i].alive, a.outcome))

\* ClientFormModal.handleSubmit and ClientsPage.handleSaveClient up to its
\* await: clientData is the form's data, with the id of the row when editing
SaveClient(clientData) ==
    /\ "ClientsPage" \in Mounted(route, user)
    /\ clientData.name # ""
    /\ Len(calls) < MaxInFlight
    /\ IF "id" \in DOMAIN clientData
       THEN LET a == OnUpdateClient(db, clientData)
            IN  /\ Serve(a)
                /\ calls' = Append(calls, Call("update-client", Mounted(route, user), a.outcome))
       ELSE LET a == OnAddClient(db, clientData)
            IN  /\ addClient(db, clientData).threw \/ db.seq.Clients < MaxFormRows
                /\ Serve(a)
                /\ calls' = Append(calls, Call("add-client", Mounted(route, user), a.outcome))
    /\ UNCHANGED <<route, user, session, loginError, clients, cases, toast, timers,
                   aiMessages, isAiLoading>>

\* ClientsPage.handleSaveClient after its await
SaveClientAnswered(i) ==
    /\ i \in DOMAIN calls
    /\ calls[i].op \in {"add-client", "update-client"}
    /\ LET result == calls[i].outcome.envelope
           did == IF calls[i].op = "add-client" THEN "Add" ELSE "Update"
       IN  IF result.success
           THEN /\ showToast(calls[i].alive, <<did, " of the client succeeded">>)
                /\ RefetchClients(i)
           ELSE /\ showToast(calls[i].alive, <<did, " failed: ", Property(result, "message")>>)
                /\ calls' = Without(calls, i)
                /\ UNCHANGED mainVars
    /\ UNCHANGED <<route, user, session, loginError, clients, cases, aiMessages, isAiLoading>>

\* ClientsPage.confirmDelete up to its await, for the row client of the list
ConfirmDeleteClient(client) ==
    /\ "ClientsPage" \in Mounted(route, user)
    /\ Len(calls) < MaxInFlight
    /\ LET a == OnDeleteClient(db, client.id)
       IN  /\ Serve(a)
           /\ calls' = Append(calls, Call("delete-client", Mounted(route, user), a.outcome))
    /\ UNCHANGED <<route, user, session, loginError, clients, cases, toast, timers,
                   aiMessages, isAiLoading>>

\* ClientsPage.confirmDelete after its await
DeleteClientAnswered(i) ==
    /\ i \in DOMAIN calls
    /\ calls[i].op = "delete-client"
    /\ LET result == calls[i].outcome.envelope
       IN  IF result.success
           THEN /\ showToast(calls[i].alive, <<"Delete", " of the client succeeded">>)
                /\ RefetchClients(i)
           ELSE /\ showToast(calls[i].alive, <<"Delete", " failed: ", Property(result, "message")>>)
                /\ calls' = Without(calls, i)
                /\ UNCHANGED mainVars
    /\ UNCHANGED <<route, user, session, loginError, clients, cases, aiMessages, isAiLoading>>

\* CaseFormModal.handleSubmit and CasesPage.handleSaveCase up to its await
SaveCase(caseData) ==
    /\ "CasesPage" \in Mounted(route, user)
    /\ IF caseData.case_number = "" \/ caseData.client_id = NullId
       THEN /\ showToast(Mounted(route, user), <<"Please enter the case number and choose the client.">>)
            /\ UNCHANGED <<mainVars, calls>>
       ELSE /\ Len(calls) < MaxInFlight
            /\ UNCHANGED <<toast, timers>>
            /\ IF "id" \in DOMAIN caseData
               THEN LET a == OnUpdateCase(db, caseData)
                    IN  /\ Serve(a)
                        /\ calls' = Append(calls, Call("update-case", Mounted(route, user),
                                                       a.outcome))
               ELSE LET a == OnAddCase(db, caseData)
                    IN  /\ addCase(db, caseData).threw \/ db.seq.Cases < MaxFormRows
                        /\ Serve(a)
                        /\ calls' = Append(calls, Call("add-case", Mounted(route, user),
                                                       a.outcome))
    /\ UNCHANGED <<route, user, session, loginError, clients, cases, aiMessages, isAiLoading>>

\* CasesPage.handleSaveCase after its await
SaveCaseAnswered(i) ==
    /\ i \in DOMAIN calls
    /\ calls[i].op \in {"add-case", "update-case"}
    /\ LET result == calls[i].outcome.envelope
           did == IF calls[i].op = "add-case" THEN "Add" ELSE "Update"
       IN  IF result.success
           THEN /\ showToast(calls[i].alive, <<did, " of the case succeeded">>)
                /\ RefetchCases(i)
           ELSE /\ showToast(calls[i].alive, <<did, " failed: ", Property(result, "message")>>)
                /\ calls' = Without(calls, i)
                /\ UNCHANGED mainVars
    /\ UNCHANGED <<route, user, session, loginError, clients, cases, aiMessages, isAiLoading>>

\* CasesPage.confirmDelete up to its await, for the row caseItem of the list
ConfirmDeleteCase(caseItem) ==
    /\ "CasesPage" \in Mounted(route, user)
    /\ Len(calls) < MaxInFlight
    /\ LET a == OnDeleteCase(db, caseItem.id)
       IN  /\ Serve(a)
           /\ calls' = Append(calls, Call("delete-case", Mounted(route, user), a.outcome))
    /\ UNCHANGED <<route, user, session, loginError, clients, cases, toast, timers,
                   aiMessages, isAiLoading>>

\* CasesPage.confirmDelete after its await
DeleteCaseAnswered(i) ==
    /\ i \in DOMAIN calls
    /\ calls[i].op = "delete-case"
    /\ LET result == calls[i].outcome.envelope
       IN  IF result.success
           THEN /\ showToast(calls[i].alive, <<"Delete", " of the case succeeded">>)
                /\ RefetchCases(i)
           ELSE /\ showToast(calls[i].alive, <<"Delete", " failed: ", Property(result, "message")>>)
                /\ calls' = Without(calls, i)
                /\ UNCHANGED mainVars
    /\ UNCHANGED <<route, user, session, loginError, clients, cases, aiMessages, isAiLoading>>

\* a chat that sends the first question of the transcript again with the
\* later ones
ChatRequest_withTranscript(prompt, messages) ==
    IF Len(messages) > 1 THEN messages[2].text[1] ELSE prompt

\* handleAiSendMessage: what it hands to window.api.askAi, messages being the
\* transcript so far
ChatRequest(prompt, messages) == prompt

\* String.prototype.trim on the inputs of the model
Trim(text) == IF text = " " THEN "" ELSE text

\* a form that submits while the answer to the last prompt is awaited
CanSubmit_whileLoading(input, isLoading) == Trim(input) # ""

\* AiAssistantModal.handleSubmit: if (!input.trim() || isLoading) return
CanSubmit(input, isLoading) == Trim(input) # "" /\ ~ isLoading

\* AiAssistantModal.handleSubmit and handleAiSendMessage up to its await
ChatSend(prompt) ==
    /\ "MainAppLayout" \in Mounted(route, user)
    /\ CanSubmit(prompt, isAiLoading)
    /\ (Len(aiMessages) - 1) \div 2 < MaxChatTurns
    /\ Len(calls) < MaxInFlight
    /\ aiMessages' = Append(aiMessages, [sender |-> "user", text |-> <<prompt>>])
    /\ isAiLoading' = TRUE
    /\ BeginAskAi(ChatRequest(prompt, aiMessages))
    /\ calls' = Append(calls,
                       Call("ask-ai", Mounted(route, user),
                            IF last'.outcome.kind = "pending"
                            THEN [kind |-> "pending", request |-> Len(aiRequests')]
                            ELSE last'.outcome))
    /\ UNCHANGED <<route, user, session, loginError, clients, cases, toast, timers>>

\* the provider answers request i and ask-ai runs to its end: the invocation
\* that waits for it, if the window still has it, gets the handler's answer
ProviderAnswers(i, reply) ==
    /\ EndAskAi(i, reply)
    /\ calls' = [j \in DOMAIN calls |->
                    IF calls[j].outcome = [kind |-> "pending", request |-> i]
                    THEN [calls[j] EXCEPT !.outcome = OnAiReply(reply)]
                    ELSE calls[j]]
    /\ UNCHANGED <<route, user, session, loginError, clients, cases, toast, timers,
                   aiMessages, isAiLoading>>

\* ipcRenderer.invoke rejects: the channel gives up on an invocation that the
\* handler has not answered
InvokeRejects(j) ==
    /\ j \in DOMAIN calls
    /\ calls[j].outcome.kind = "pending"
    /\ calls' = [calls EXCEPT ![j].outcome = Rejected("Error invoking remote method 'ask-ai'")]
    /\ UNCHANGED <<mainVars, route, user, session, loginError, clients, cases, toast, timers,
                   aiMessages, isAiLoading>>

\* handleAiSendMessage after its await: try, catch and finally
ChatAnswered(j) ==
    /\ j \in DOMAIN calls
    /\ calls[j].op = "ask-ai"
    /\ calls[j].outcome.kind # "pending"
    /\ LET o == calls[j].outcome
           message ==
               IF o.kind = "rejected"
               THEN [sender |-> "error", text |-> <<"Connection error: ", o.error>>]
               ELSE IF o.envelope.success
               THEN [sender |-> "ai", text |-> <<o.envelope.text>>]
               ELSE [sender |-> "error",
                     text |-> <<"Error: ",
                                IF Property(o.envelope, "message") \in {Undefined, ""}
                                THEN "The assistant cannot be reached now."
                                ELSE o.envelope.message>>]
       IN  IF "MainAppLayout" \in calls[j].alive
           THEN /\ aiMessages' = Append(aiMessages, message)
                /\ isAiLoading' = FALSE
           ELSE UNCHANGED <<aiMessages, isAiLoading>>
    /\ calls' = Without(calls, j)
    /\ UNCHANGED <<mainVars, route, user, session, loginError, clients, cases, toast, timers>>

-----------------------------------------------------------------------------
(* Inputs *)

RowIds == 1..(MaxRowId + 1)

\* with an id: the argument of an update command
WithId(i, r) == [x \in {"id"} \cup DOMAIN r |-> IF x = "id" THEN i ELSE r[x]]

\* client forms: every name with every email, and one with the optional
\* fields left out
ClientInputs ==
    [name : {Undefined, "a", "b"}, phone : {"p"}, email : {Undefined, "", "e"},
     address : {"x"}]
        \cup {[name |-> "a", phone |-> Undefined, email |-> Undefined, address |-> Undefined]}

\* case forms: every number with no client, the first client and a client
\* that does not exist, and one for the second client with the optional fields
\* left out
CaseInputs ==
    [case_number : {Undefined, "n1", "n2"}, client_id : {NullId, 1, MaxRowId + 1},
     description : {"x"}, status : {"Open"}]
        \cup {[case_number |-> "n2", client_id |-> 2, description |-> Undefined,
               status |-> Undefined]}

\* a few inputs of each kind, for the specifications about something else
SomeClients ==
    {[name |-> "a", phone |-> "p", email |-> "e", address |-> "x"],
     [name |-> "b", phone |-> Undefined, email |-> Undefined, address |-> Undefined],
     [name |-> Undefined, phone |-> "p", email |-> "e", address |-> Undefined]}

SomeCases ==
    {[case_number |-> "n1", client_id |-> 1, description |-> "x", status |-> "Open"],
     [case_number |-> "n2", client_id |-> NullId, description |-> Undefined,
      status |-> "Closed"],
     [case_number |-> "n1", client_id |-> MaxRowId + 1, description |-> Undefined,
      status |-> "Open"]}

Usernames == {"admin", "sara", "omar", "lina", "nobody"}
Passwords == {"admin123", "s3cret", "wrong", ""}
Credentials == [username : Usernames, password : Passwords]

\* users a database file may hold besides the default admin
ProvisionedUsers ==
    {[id |-> 2, username |-> "sara", password |-> hashSync("s3cret", "salt2"), role |-> "Lawyer"],
     [id |-> 3, username |-> "omar", password |-> hashSync("admin123", "salt3"),
      role |-> "Employee"],
     [id |-> 4, username |-> "lina", password |-> hashSync("", "salt4"), role |-> "Lawyer"]}

Prompts == {"", "q1", "q2"}

\* what the client form is submitted with: a field left empty holds ''
ClientForms ==
    {[name |-> "a", phone |-> "", email |-> "", address |-> ""],
     [name |-> "b", phone |-> "p", email |-> "e", address |-> "x"]}

\* what the case form is submitted with: the client is one of the select's
\* options, or none
CaseForms ==
    [case_number : {"n1", "n2"}, client_id : {NullId, 1}, description : {""},
     status : {"Open"}]

\* what the chat's input is submitted with
ChatInputs == {"", " ", "q1", "q2"}

\* the locations of the window
Routes == {"/login", "/", "/clients", "/cases"}

\* what the login form is submitted with: the default admin's credentials, a
\* wrong password, and the empty form
LoginForms ==
    {[username |-> "admin", password |-> "admin123"],
     [username |-> "admin", password |-> "wrong"],
     [username |-> "", password |-> ""]}

ApiKeys == {Undefined, "", "key"}

\* how a copy may end: well, or with an error of the file system
CopyErrors == {Null, "SQLITE_FULL"}

ProviderReplies ==
    {[threw |-> FALSE, text |-> "answer"], [threw |-> TRUE, message |-> "quota exceeded"]}

\* appointments a database file may hold: a second before, at, and a second
\* after 02:00:00
OfficeAppointments ==
    {[id |-> 1, case_id |-> 1, title |-> "hearing", date |-> SqlDatetime(TwoAM - MsPerSecond),
      location |-> Null],
     [id |-> 2, case_id |-> 1, title |-> "hearing", date |-> SqlDatetime(TwoAM),
      location |-> Null],
     [id |-> 3, case_id |-> 2, title |-> "meeting", date |-> SqlDatetime(TwoAM + MsPerSecond),
      location |-> "court"]}

\* a database file left by earlier runs
OfficeDatabase ==
    [Users |-> {DefaultAdmin},
     Clients |-> {[id |-> 1, name |-> "b", phone |-> "p", email |-> "e", address |-> Null]},
     Cases |-> {[id |-> 1, case_number |-> "n1", client_id |-> 1, description |-> "x",
                 status |-> "Open"],
                [id |-> 2, case_number |-> "n2", client_id |-> 1, description |-> Null,
                 status |-> "Closed"]},
     Appointments |-> {[id |-> 1, case_id |-> 1, title |-> "hearing",
                        date |-> SqlDatetime(TwoAM), location |-> Null],
                       [id |-> 2, case_id |-> 2, title |-> "hearing",
                        date |-> SqlDatetime(TwoAM + MsPerSecond), location |-> Null]},
     Invoices |-> {[id |-> 1, case_id |-> 1, amount |-> 100, due_date |-> Null,
                    status |-> "Unpaid"],
                   [id |-> 2, case_id |-> 2, amount |-> 250, due_date |-> Null,
                    status |-> "Unpaid"]},
     seq |-> [Clients |-> 1, Cases |-> 2]]

\* a database file left by an earlier run that added one client from the form
OneClientDatabase ==
    [NewDatabase EXCEPT
        !.Clients = {[id |-> 1, name |-> "a", phone |-> "", email |-> "", address |-> ""]},
        !.seq.Clients = 1]

-----------------------------------------------------------------------------
(* Specifications *)

\* the client commands, on a new or an existing database
InitClients == \E f \in {NewDatabase, OfficeDatabase} : Ready(f, Undefined)

NextClients ==
    \/ GetClients
    \/ GetClientList
    \/ \E c \in ClientInputs : AddClient(c)
    \/ \E i \in RowIds, c \in ClientInputs : UpdateClient(WithId(i, c))
    \/ \E i \in RowIds : DeleteClient(i)
    \/ GetCases

SpecClients == InitClients /\ [][NextClients]_vars

\* the case commands, on a new or an existing database
InitCases == \E f \in {NewDatabase, OfficeDatabase} : Ready(f, Undefined)

NextCases ==
    \/ GetCases
    \/ \E k \in CaseInputs : AddCase(k)
    \/ \E i \in RowIds, k \in CaseInputs : UpdateCase(WithId(i, k))
    \/ \E i \in RowIds : DeleteCase(i)
    \/ \E c \in SomeClients : AddClient(c)
    \/ \E i \in RowIds : DeleteClient(i)

SpecCases == InitCases /\ [][NextCases]_vars

\* login, on a database file with any of the provisioned users
InitAuth ==
    \E extra \in SUBSET ProvisionedUsers :
        Ready([NewDatabase EXCEPT !.Users = @ \cup extra], Undefined)

NextAuth == \E cred \in Credentials : Login(cred)

SpecAuth == InitAuth /\ [][NextAuth]_vars

\* the dashboard statistics while time passes and rows come and go
InitStats ==
    \E apps \in SUBSET OfficeAppointments :
        Ready([OfficeDatabase EXCEPT !.Appointments = apps], Undefined)

NextStats ==
    \/ Tick
    \/ GetStats
    \/ \E c \in SomeClients : AddClient(c)
    \/ \E i \in RowIds : DeleteClient(i)
    \/ \E i \in RowIds : DeleteCase(i)

SpecStats == InitStats /\ [][NextStats]_vars

\* manual and scheduled backups while time passes
InitBackup == Ready(NewDatabase, Undefined)

NextBackup ==
    \/ Tick
    \/ ManualBackup
    \/ ScheduledBackup
    \/ \E i \in 1..MaxBackups, err \in CopyErrors : CopySettles(i, err)

SpecBackup == InitBackup /\ [][NextBackup]_vars

\* manual backups whose copies end while the store is in use
InitCopy == Ready(NewDatabase, Undefined)

NextCopy ==
    \/ ManualBackup
    \/ \E i \in 1..MaxBackups, err \in CopyErrors : CopySettles(i, err)
    \/ \E c \in SomeClients : AddClient(c)
    \/ GetClients

SpecCopy == InitCopy /\ [][NextCopy]_vars

\* the AI advisory bridge
InitAi == \E key \in ApiKeys : Ready(NewDatabase, key)

NextAi ==
    \/ \E key \in ApiKeys : SetApiKey(key)
    \/ \E prompt \in Prompts : AskAi(prompt)
    \/ \E i \in 1..MaxAiCalls, reply \in ProviderReplies : AiReplies(i, reply)

SpecAi == InitAi /\ [][NextAi]_vars

\* the page of the clients, from the login on
InitClientsPage == Ready(NewDatabase, Undefined)

NextClientsPage ==
    \/ \E cred \in LoginForms : SubmitLogin(cred)
    \/ \E i \in 1..MaxInFlight : LoginAnswered(i)
    \/ Go("/clients")
    \/ \E i \in 1..MaxInFlight : FetchClientsAnswered(i)
    \/ \E form \in ClientForms : SaveClient(form)
    \/ \E i \in DOMAIN clients, form \in ClientForms : SaveClient(WithId(clients[i].id, form))
    \/ \E i \in 1..MaxInFlight : SaveClientAnswered(i)
    \/ \E i \in DOMAIN clients : ConfirmDeleteClient(clients[i])
    \/ \E i \in 1..MaxInFlight : DeleteClientAnswered(i)
    \/ ToastTimerFires

SpecClientsPage == InitClientsPage /\ [][NextClientsPage]_vars

\* the same, the event loop running every timer that is due
SpecClientsPageLive == SpecClientsPage /\ WF_vars(ToastTimerFires)

\* the same where the answers are taken in the order the invocations were
\* sent: the oldest one first
InOrder ==
    \/ Len(calls') >= Len(calls) /\ \A i \in DOMAIN calls : calls'[i] = calls[i]
    \/ \A i \in 1..(Len(calls) - 1) : calls'[i] = calls[i + 1]

SpecClientsPageInOrder == InitClientsPage /\ [][NextClientsPage /\ InOrder]_vars

\* the page of the cases, on a database file with one client
InitCasesPage == Ready(OneClientDatabase, Undefined)

NextCasesPage ==
    \/ SubmitLogin([username |-> "admin", password |-> "admin123"])
    \/ \E i \in 1..MaxInFlight : LoginAnswered(i)
    \/ Go("/cases")
    \/ \E i \in 1..MaxInFlight : FetchCasesAnswered(i)
    \/ \E form \in CaseForms : SaveCase(form)
    \/ \E i \in DOMAIN cases, form \in CaseForms : SaveCase(WithId(cases[i].id, form))
    \/ \E i \in 1..MaxInFlight : SaveCaseAnswered(i)
    \/ \E i \in DOMAIN cases : ConfirmDeleteCase(cases[i])
    \/ \E i \in 1..MaxInFlight : DeleteCaseAnswered(i)
    \/ ToastTimerFires

SpecCasesPage == InitCasesPage /\ [][NextCasesPage]_vars

\* the chat with the AI assistant, with and without the credential
InitChat == \E key \in {Undefined, "key"} : Ready(NewDatabase, key)

NextChat ==
    \/ SubmitLogin([username |-> "admin", password |-> "admin123"])
    \/ \E i \in 1..MaxInFlight : LoginAnswered(i)
    \/ Logout
    \/ \E prompt \in ChatInputs : ChatSend(prompt)
    \/ \E i \in 1..MaxAiCalls, reply \in ProviderReplies : ProviderAnswers(i, reply)
    \/ \E j \in 1..MaxInFlight : InvokeRejects(j)
    \/ \E j \in 1..MaxInFlight : ChatAnswered(j)

SpecChat == InitChat /\ [][NextChat]_vars

\* the same, the event loop running the continuation of every settled
\* invocation
SpecChatLive == SpecChat /\ WF_vars(\E j \in 1..MaxInFlight : ChatAnswered(j))

\* the session: logins, logouts, navigation and reloads of the window
InitSession == Ready(NewDatabase, Undefined)

NextSession ==
    \/ \E cred \in LoginForms : SubmitLogin(cred)
    \/ \E i \in 1..MaxInFlight : LoginAnswered(i)
    \/ \E r \in Routes : Go(r)
    \/ Redirect
    \/ Logout
    \/ Reload
    \/ \E i \in 1..MaxInFlight : FetchClientsAnswered(i)
    \/ \E i \in 1..MaxInFlight : FetchCasesAnswered(i)

SpecSession == InitSession /\ [][NextSession]_vars

\* the whole command surface at one instant, with a few inputs per command
Init == \E key \in {Undefined, "key"} : Ready(NewDatabase, key)

Next ==
    \/ \E cred \in {[username |-> "admin", password |-> "admin123"],
                    [username |-> "admin", password |-> "wrong"]} : Login(cred)
    \/ GetStats
    \/ ManualBackup
    \/ AskAi("q1")
    \/ \E i \in 1..MaxAiCalls, reply \in ProviderReplies : AiReplies(i, reply)
    \/ GetClients
    \/ GetClientList
    \/ \E c \in SomeClients : AddClient(c)
    \/ \E i \in {1, MaxRowId + 1}, c \in SomeClients : UpdateClient(WithId(i, c))
    \/ \E i \in {1, MaxRowId + 1} : DeleteClient(i)
    \/ GetCases
    \/ \E k \in SomeCases : AddCase(k)
    \/ \E i \in {1, MaxRowId + 1}, k \in SomeCases : UpdateCase(WithId(i, k))
    \/ \E i \in {1, MaxRowId + 1} : DeleteCase(i)

Spec == Init /\ [][Next]_vars

-----------------------------------------------------------------------------
(* Properties *)

\* the envelope of the last command
Envelope == last.outcome.envelope

Answered(op) == last.op = op /\ last.outcome.kind = "resolved"

\* the stored users that the credentials of the last login name and whose
\* hash their password matches
LoginMatches ==
    {u \in db.Users : /\ u.username = last.arg.username
                      /\ u.password = hashSync(last.arg.password, u.password.salt)}

\* C1: a login whose username is stored and whose password matches the
\* stored hash answers with that user's id, username and role and without the
\* password hash; every other login fails, with one and the same message
\* whether the username is unknown or the password is wrong.
C1_LoginSanitizedOrGeneric ==
    last.op = "login" =>
        /\ last.outcome.kind = "resolved"
        /\ IF LoginMatches # {}
           THEN /\ Envelope.success
                /\ DOMAIN Envelope.user = {"id", "username", "role"}
                /\ \E u \in LoginMatches :
                      /\ Envelope.user.id = u.id
                      /\ Envelope.user.username = u.username
                      /\ Envelope.user.role = u.role
           ELSE /\ ~ Envelope.success
                /\ Envelope.message = "The username or the password is incorrect."

\* a provisioned user has logged in, and the answer carries the record
C1_Witness ==
    /\ Answered("login")
    /\ Envelope.success
    /\ Envelope.user.username = "sara"
    /\ \E u \in db.Users : u.username = "sara" /\ "password" \in DOMAIN u

\* the cases that referenced the client named by the last command, before it
CasesOfDeletedClient == {k \in pre.Cases : k.client_id = last.arg}

\* C2: deleteClient(id) of an existing client removes the client and keeps
\* every case: the cases that referenced it are the same rows with client_id
\* NULL, the other cases are untouched, and getCases then returns the former
\* cases of the client without a client name, which the page shows as unassigned.
C2_DeleteClientKeepsCases ==
    (Answered("delete-client") /\ \E c \in pre.Clients : c.id = last.arg) =>
        /\ db.Clients = {c \in pre.Clients : c.id # last.arg}
        /\ db.Cases = {IF k \in CasesOfDeletedClient THEN [k EXCEPT !.client_id = NullId]
                       ELSE k : k \in pre.Cases}
        /\ Cardinality(db.Cases) = Cardinality(pre.Cases)
        /\ \A k \in CasesOfDeletedClient :
              \E i \in DOMAIN getCases(db) :
                  /\ getCases(db)[i].id = k.id
                  /\ getCases(db)[i].client_name = Null
                  /\ ClientCell(getCases(db)[i]) = "unassigned"

\* a client that two cases referenced has been deleted
C2_Witness ==
    /\ Answered("delete-client")
    /\ Envelope.success
    /\ Cardinality(CasesOfDeletedClient) = 2
    /\ Cardinality(db.Cases) = 2

\* C3: deleteCase(id) of an existing case removes exactly the appointments
\* and the invoices whose case reference is id, keeps those of every other
\* case, and leaves the Clients table as it was.
C3_DeleteCaseCascades ==
    (Answered("delete-case") /\ \E k \in pre.Cases : k.id = last.arg) =>
        /\ db.Cases = {k \in pre.Cases : k.id # last.arg}
        /\ db.Appointments = {a \in pre.Appointments : a.case_id # last.arg}
        /\ db.Invoices = {v \in pre.Invoices : v.case_id # last.arg}
        /\ db.Clients = pre.Clients

\* a case with a client, an appointment and an invoice has been deleted while
\* another case has an appointment and an invoice too
C3_Witness ==
    /\ Answered("delete-case")
    /\ Envelope.success
    /\ \E k \in pre.Cases :
          /\ k.id = last.arg
          /\ \E c \in db.Clients : c.id = k.client_id
    /\ \E a \in pre.Appointments : a.case_id = last.arg
    /\ \E v \in pre.Invoices : v.case_id = last.arg
    /\ db.Appointments # {}
    /\ db.Invoices # {}

\* C4: add-case with the case_number of an existing case answers
\* {success: false, message} with the storage error as the message, and the
\* Cases table (and its AUTOINCREMENT counter) is as before the call.
C4_DuplicateCaseNumberRejected ==
    (Answered("add-case") /\ \E k \in pre.Cases : k.case_number = last.arg.case_number) =>
        /\ ~ Envelope.success
        /\ Envelope.message = "UNIQUE constraint failed: Cases.case_number"
        /\ db.Cases = pre.Cases
        /\ db.seq = pre.seq

\* add-case was called with the number of a stored case while the table had
\* room for a row
C4_Witness ==
    /\ Answered("add-case")
    /\ \E k \in pre.Cases : k.case_number = last.arg.case_number
    /\ pre.seq.Cases < MaxRowId
    /\ ~ Envelope.success

\* C5: any two invocations of the backup operation, manual or scheduled,
\* even at the same instant, target two distinct backup file paths.
C5_BackupPathsDistinct ==
    \A i, j \in DOMAIN backups : i # j => backups[i].path # backups[j].path

\* C6: an ask-ai call made while API_KEY is missing or empty answers
\* {success: false, message} with the configuration message and hands nothing
\* to the provider, whatever the prompt; the credential is read at each call,
\* so a call made while it is present hands the provider one request with the
\* prompt, whatever earlier calls met.
C6_NoCredentialNoRequest ==
    [][\A p \in Prompts :
          AskAi(p) =>
              IF apiKey \in {Undefined, ""}
              THEN /\ aiRequests' = aiRequests
                   /\ aiPending' = aiPending
                   /\ last'.outcome =
                          Resolved(FailureEnvelope("The AI API key is not configured."))
              ELSE /\ aiRequests' = Append(aiRequests,
                                           [apiKey |-> apiKey, payload |-> AiPayload(p)])
                   /\ last'.outcome.kind = "pending"]_vars

\* a call has failed for the missing credential although an earlier call,
\* made while the credential was there, reached the provider
C6_Witness ==
    /\ Answered("ask-ai")
    /\ ~ Envelope.success
    /\ Envelope.message = "The AI API key is not configured."
    /\ apiKey \in {Undefined, ""}
    /\ aiRequests # <<>>

\* the instant, in milliseconds of the model's day, that a stored
\* YYYY-MM-DD HH:MM:SS text names
DateInstant(text) ==
    LET n(i) == 10 * DigitValue(text[i]) + DigitValue(text[i + 1])
    IN  ((n(12) * 60 + n(15)) * 60 + n(18)) * MsPerSecond

\* C7: getDashboardStats returns the number of Case rows, the number of
\* Client rows, and the number of appointments dated strictly after the time
\* of the query; an appointment dated exactly then is not counted.
C7_DashboardCounts ==
    Answered("get-stats") =>
        /\ Envelope.success
        /\ Envelope.stats.casesCount = Cardinality(db.Cases)
        /\ Envelope.stats.activeClients = Cardinality(db.Clients)
        /\ Envelope.stats.upcomingAppointments =
               Cardinality({a \in db.Appointments : DateInstant(a.date) > last.arg})

\* the statistics were queried at the very instant of one appointment, with
\* another one earlier and another one later
C7_Witness ==
    /\ Answered("get-stats")
    /\ \E a \in db.Appointments : DateInstant(a.date) = last.arg
    /\ \E a \in db.Appointments : DateInstant(a.date) < last.arg
    /\ Envelope.stats.upcomingAppointments = 1
    /\ Envelope.stats.casesCount = 2

\* an input field as a query returns it: a field left out comes back as null
ReadBack(v) == IF v = Undefined THEN Null ELSE v

\* the last command's argument is a valid new client for the store it met: it
\* has a name, and its email, when given, is not the email of a stored client
ValidNewClient ==
    /\ last.arg.name # Undefined
    /\ \/ last.arg.email = Undefined
       \/ \A c \in pre.Clients : c.email # last.arg.email

\* C8: addClient with a valid input succeeds, and getClients right after it
\* lists a record under a newly assigned id whose name, phone, email and
\* address are the input's, next to every client stored before, unchanged.
C8_AddClientRoundTrip ==
    (Answered("add-client") /\ ValidNewClient) =>
        /\ Envelope.success
        /\ \A c \in pre.Clients : Envelope.client.id # c.id
        /\ \A list \in getClients(db) :
              /\ \E i \in DOMAIN list :
                    list[i] = [id |-> Envelope.client.id,
                               name |-> last.arg.name,
                               phone |-> ReadBack(last.arg.phone),
                               email |-> ReadBack(last.arg.email),
                               address |-> ReadBack(last.arg.address)]
              /\ \A c \in pre.Clients : \E j \in DOMAIN list : list[j] = c
              /\ Len(list) = Cardinality(pre.Clients) + 1

\* a client with a phone and an email has been added next to a stored one
C8_Witness ==
    /\ Answered("add-client")
    /\ ValidNewClient
    /\ last.arg.phone = "p"
    /\ last.arg.email = ""
    /\ pre.Clients # {}
    /\ Cardinality(db.Clients) = 2

\* what the service function behind the last command did on the store the
\* command met (the commands that only read never throw on an open database)
ServiceResult ==
    CASE last.op = "login" -> attemptLogin(pre, last.arg.username, last.arg.password)
      [] last.op = "get-stats" -> getDashboardStats(pre, last.arg)
      [] last.op = "manual-backup" -> backupDatabase(pre, last.arg)
      [] last.op = "add-client" -> addClient(pre, last.arg)
      [] last.op = "update-client" -> updateClient(pre, last.arg)
      [] last.op = "delete-client" -> deleteClient(pre, last.arg)
      [] last.op = "add-case" -> addCase(pre, last.arg)
      [] last.op = "update-case" -> updateCase(pre, last.arg)
      [] last.op = "delete-case" -> deleteCase(pre, last.arg)
      [] OTHER -> Return(Undefined, pre)

UpdateOfMissingRow ==
    \/ Answered("update-client") /\ \A c \in pre.Clients : c.id # last.arg.id
    \/ Answered("update-case") /\ \A k \in pre.Cases : k.id # last.arg.id

\* C10: update-client or update-case under an id that matches no stored row
\* answers success = false with a message, and leaves the store unchanged.
C10_UpdateOfMissingRowFails ==
    UpdateOfMissingRow =>
        /\ ~ Envelope.success
        /\ "message" \in DOMAIN Envelope
        /\ db = pre

\* the last command is a delete, and hit is whether a row of its table had
\* the id it names
DeleteMet(hit) ==
    \/ Answered("delete-client") /\ hit = (\E c \in pre.Clients : c.id = last.arg)
    \/ Answered("delete-case") /\ hit = (\E k \in pre.Cases : k.id = last.arg)

\* the rows of the last delete command's table, before and after it
DeleteTable(d) == IF last.op = "delete-client" THEN d.Clients ELSE d.Cases

\* C11: delete-client and delete-case answer success = true exactly when a
\* row with the given id existed before the call, and that row is then gone;
\* when no row matches they answer success = false together with a message and
\* leave the whole store unchanged.
C11_DeleteReportsWhetherRowExisted ==
    /\ DeleteMet(TRUE) =>
          /\ Envelope.success
          /\ DeleteTable(db) = {r \in DeleteTable(pre) : r.id # last.arg}
    /\ DeleteMet(FALSE) =>
          /\ ~ Envelope.success
          /\ "message" \in DOMAIN Envelope
          /\ db = pre

\* the same without the message: the part the delete commands keep
DeleteSuccessIffRowExisted ==
    /\ DeleteMet(TRUE) =>
          /\ Envelope.success
          /\ DeleteTable(db) = {r \in DeleteTable(pre) : r.id # last.arg}
    /\ DeleteMet(FALSE) =>
          /\ ~ Envelope.success
          /\ db = pre

\* the last command, carried out, would have stored a second row with an
\* email or a case_number that another row of the table has
WouldDuplicate ==
    \/ /\ Answered("add-client")
       /\ \E c \in pre.Clients : c.email # Null /\ c.email = Bind(last.arg.email)
    \/ /\ Answered("update-client")
       /\ \E r \in pre.Clients : r.id = last.arg.id
       /\ \E c \in pre.Clients :
             c.id # last.arg.id /\ c.email # Null /\ c.email = Bind(last.arg.email)
    \/ /\ Answered("add-case")
       /\ \E k \in pre.Cases : k.case_number = Bind(last.arg.case_number)
    \/ /\ Answered("update-case")
       /\ \E r \in pre.Cases : r.id = last.arg.id
       /\ \E k \in pre.Cases :
             k.id # last.arg.id /\ k.case_number = Bind(last.arg.case_number)

\* C12: in every store state that the client and case commands reach, no two
\* cases have the same case_number and no two clients have the same email
\* (an email that is there: clients without one are not duplicates of each
\* other); an add or an update that would store such a duplicate fails and
\* changes nothing.
C12_NumbersAndEmailsUnique ==
    /\ \A k1, k2 \in db.Cases : k1.case_number = k2.case_number => k1 = k2
    /\ \A c1, c2 \in db.Clients : (c1.email # Null /\ c1.email = c2.email) => c1 = c2
    /\ WouldDuplicate =>
          /\ ~ Envelope.success
          /\ db = pre

\* with two clients and two cases stored, an update that would have given a
\* client the email, or a case the number, of the other row has been refused
C12_Witness ==
    /\ WouldDuplicate
    /\ last.op \in {"update-client", "update-case"}
    /\ Cardinality(db.Clients) = 2
    /\ Cardinality(db.Cases) = 2
    /\ ~ Envelope.success

\* the last command is an add-case or an update-case whose client_id is the
\* id of no stored client
NamesMissingClient ==
    /\ Answered("add-case") \/ Answered("update-case")
    /\ last.arg.client_id # NullId
    /\ \A c \in pre.Clients : c.id # last.arg.client_id

\* C13: in every store state that the client and case commands reach, the
\* client_id of each case is NULL or the id of a client that is stored now; an
\* add-case or update-case that names a client id that does not exist stores
\* nothing.
C13_NoDanglingClientReference ==
    /\ \A k \in db.Cases :
          k.client_id = NullId \/ \E c \in db.Clients : c.id = k.client_id
    /\ NamesMissingClient =>
          /\ db = pre
          /\ \A k \in db.Cases : k.client_id # last.arg.client_id

\* an update of a stored case named a client that does not exist, with a free
\* case number, and was refused, while another case references a stored client
C13_Witness ==
    /\ NamesMissingClient
    /\ last.op = "update-case"
    /\ \E r \in pre.Cases : r.id = last.arg.id
    /\ \A k \in pre.Cases : k.id # last.arg.id => k.case_number # last.arg.case_number
    /\ last.arg.case_number # Undefined
    /\ Envelope = FailureEnvelope("FOREIGN KEY constraint failed")
    /\ \E k \in db.Cases : k.client_id # NullId

\* a copy has failed
SomeCopyFailed == \E i \in DOMAIN backups : backups[i].logged = <<CopyLog("SQLITE_FULL")>>

\* C14: the backup is fire-and-forget. manual-backup answers success with the
\* intended path while the copy it started is still running; the end of a
\* copy, a failure too, writes one line to the console and changes neither
\* the answer already given nor the store; and the store serves commands after
\* a failed copy as it does without one.
C14_BackupFireAndForget ==
    [][/\ ManualBackup =>
             /\ last'.outcome =
                    Resolved([success |-> TRUE,
                              message |-> <<"Backup created at: ", BackupPath(now)>>])
             /\ Len(backups') = Len(backups) + 1
             /\ backups'[Len(backups')].path = BackupPath(now)
             /\ backups'[Len(backups')].logged = <<>>
       /\ \A i \in 1..MaxBackups, err \in CopyErrors :
             CopySettles(i, err) =>
                 /\ last' = last
                 /\ db' = db
                 /\ backups'[i].logged = <<CopyLog(err)>>
                 /\ \A j \in DOMAIN backups : j # i => backups'[j] = backups[j]
       /\ \A c \in SomeClients :
             (SomeCopyFailed /\ AddClient(c)) =>
                 /\ last'.outcome = OnAddClient(db, c).outcome
                 /\ db' = OnAddClient(db, c).db]_vars

\* after the copy of a manual backup failed, a client was added and listed
C14_Witness ==
    /\ SomeCopyFailed
    /\ \E i \in DOMAIN backups : backups[i].by = "manual-backup" /\ backups[i].logged # <<>>
    /\ Answered("get-clients")
    /\ Envelope.success
    /\ Len(Envelope.clients) = 1
    /\ pre = db

\* nothing but the login page and the redirection is mounted without a held user
Guarded ==
    \A component \in Mounted(route, user) :
        component \notin {"LoginPage", "Navigate"} => user # NoUser

\* the answer taken in this step is a successful login of the user u
LoginSucceeds(u) ==
    \E i \in DOMAIN calls :
        /\ LoginAnswered(i)
        /\ \E cred \in LoginForms : calls[i].outcome = OnLogin(db, cred).outcome
        /\ calls[i].outcome.envelope.success
        /\ calls[i].outcome.envelope.user = u

\* C15: a view other than the login view is rendered only while a user is
\* held; with no held user a location other than /login renders the
\* redirection alone, which leads to /login; a user becomes held (and is put
\* into sessionStorage) only when a login command has answered with success,
\* or on a reload from the item such a login left; and logout discards the
\* held user from the state and from sessionStorage and leads to /login.
C15_RoutesGuardedBySession ==
    [][/\ Guarded /\ Guarded'
       /\ (user = NoUser /\ route # "/login") => Mounted(route, user) = {"Navigate"}
       /\ Redirect => (route' = "/login" /\ user' = user)
       /\ (user' # NoUser /\ user' # user) =>
             \/ LoginSucceeds(user')
             \/ Reload /\ session = JSONstringify(user')
       /\ (session' # NoItem /\ session' # session) =>
             \E u \in {JSONparse(session')} : LoginSucceeds(u) /\ user' = u
       /\ Logout =>
             /\ user' = NoUser
             /\ session' = NoItem
             /\ route' = "/login"
             /\ Mounted(route', user') = {"LoginPage"}]_vars

\* a user is held, with its item in sessionStorage, and the clients page has
\* taken the answer to its fetch
C15_Witness ==
    /\ user.username = "admin"
    /\ session = JSONstringify(user)
    /\ route = "/clients"
    /\ calls = <<>>

\* the answer to the invocation sent in this step
Sent == calls'[Len(calls')].outcome

\* C16: the email of a client is optional: a client saved through the
\* add-client form with the email field left empty is added, whatever number
\* of stored clients have no email either.
C16_BlankEmailAlwaysAccepted ==
    [][\A form \in ClientForms :
          (form.email = "" /\ SaveClient(form)) => Sent.envelope.success]_vars

\* C17: once every invocation in flight has been answered, in whatever order
\* the answers came, the list that ClientsPage displays is the store's list of
\* clients: a late answer to an older get-clients leaves no stale list.
C17_ListMatchesStoreWhenQuiet ==
    (calls = <<>> /\ "ClientsPage" \in Mounted(route, user)) => clients \in getClients(db)

\* the answer i, taken in this step by the handler that awaited it, is a
\* failure envelope
FailureTaken(i) ==
    /\ i \in DOMAIN calls
    /\ LoginAnswered(i) \/ SaveClientAnswered(i) \/ DeleteClientAnswered(i)
          \/ SaveCaseAnswered(i) \/ DeleteCaseAnswered(i)
    /\ ~ calls[i].outcome.envelope.success

\* the step that takes the failure i leaves the window's state as it was: the
\* lists, the held user and the session, and it sends nothing
FailureLeavesStateIntact(i) ==
    /\ clients' = clients
    /\ cases' = cases
    /\ calls' = Without(calls, i)
    /\ user' = user
    /\ session' = session
    /\ route' = route
    /\ db' = db

\* the step that takes the failure i shows a text in which shown stands
FailureShows(i, shown) ==
    IF calls[i].op = "login"
    THEN "LoginPage" \in calls[i].alive => loginError' = shown
    ELSE "MainAppLayout" \in calls[i].alive =>
             /\ Len(toast') > 1
             /\ toast'[Len(toast')] = shown

\* C18: when login or a command that adds, updates or deletes a client or a
\* case answers with a failure envelope, the window shows the envelope's
\* message, in a toast or as the login page's error, and keeps its state: the
\* displayed list stays, nothing is fetched again, and no user becomes held.
C18_FailureShownStateKept ==
    [][\A i \in 1..MaxInFlight :
          FailureTaken(i) =>
              /\ "message" \in DOMAIN calls[i].outcome.envelope
              /\ FailureShows(i, calls[i].outcome.envelope.message)
              /\ FailureLeavesStateIntact(i)]_vars

\* the same where a failure without a message shows the text its handler makes
\* of the message that is not there
FailureShownStateKept ==
    [][\A i \in 1..MaxInFlight :
          FailureTaken(i) =>
              /\ FailureShows(i, Property(calls[i].outcome.envelope, "message"))
              /\ FailureLeavesStateIntact(i)]_vars

\* C19: the request that goes to the provider is made of the prompt of the
\* command alone, with the fixed system instruction and the model name; a
\* prompt sends at most one request, whatever the transcript holds, and
\* nothing else sends one.
C19_RequestFromPromptOnly ==
    [][/\ \A prompt \in ChatInputs :
            ChatSend(prompt) =>
                \/ aiRequests' = aiRequests
                \/ aiRequests' = Append(aiRequests,
                                        [apiKey |-> apiKey, payload |-> AiPayload(prompt)])
       /\ aiRequests' # aiRequests => \E prompt \in ChatInputs : ChatSend(prompt)]_vars

\* the same question asked at the start of a chat and after an answer: the
\* two requests are equal
C19_Witness ==
    /\ Len(aiMessages) = 4
    /\ aiMessages[3].sender = "ai"
    /\ aiMessages[4] = aiMessages[2]
    /\ Len(aiRequests) = 2
    /\ aiRequests[1] = aiRequests[2]

\* the ask-ai invocations the mounted layout waits for
AwaitingChat ==
    {j \in DOMAIN calls : calls[j].op = "ask-ai" /\ "MainAppLayout" \in calls[j].alive}

\* the answer to the awaited invocation has arrived in the window
ChatArrived == \E j \in AwaitingChat : calls[j].outcome.kind # "pending"

\* after the greeting the transcript is a question, its answer or error, a
\* question, ...; the last question is unanswered exactly while loading
TranscriptInTurns ==
    /\ \A k \in 2..Len(aiMessages) :
          IF k % 2 = 0 THEN aiMessages[k].sender = "user"
          ELSE aiMessages[k].sender \in {"ai", "error"}
    /\ isAiLoading <=> Len(aiMessages) % 2 = 0

\* C20: the indicator is on exactly while the layout waits for the answer to
\* a prompt; at most one prompt is awaited; a sent prompt adds one user
\* message and turns the indicator on; its answer (success, failure or
\* rejection) adds one ai or error message, ai exactly on success, and turns
\* the indicator off; and an answer that has arrived does turn it off.
C20_LoadingWhileAwaiting ==
    /\ [](/\ isAiLoading <=> AwaitingChat # {}
          /\ Cardinality(AwaitingChat) <= 1
          /\ TranscriptInTurns)
    /\ [][/\ \A prompt \in ChatInputs :
                ChatSend(prompt) =>
                    /\ ~ isAiLoading /\ isAiLoading'
                    /\ aiMessages' = Append(aiMessages, [sender |-> "user", text |-> <<prompt>>])
          /\ \A j \in AwaitingChat :
                ChatAnswered(j) =>
                    /\ ~ isAiLoading'
                    /\ Len(aiMessages') = Len(aiMessages) + 1
                    /\ SubSeq(aiMessages', 1, Len(aiMessages)) = aiMessages
                    /\ aiMessages'[Len(aiMessages')].sender =
                          IF calls[j].outcome.kind = "resolved"
                             /\ calls[j].outcome.envelope.success
                          THEN "ai" ELSE "error"]_vars
    /\ (ChatArrived ~> ~ isAiLoading)

\* a chat of two prompts, the first answered by the provider, the second
\* ended by a rejected invocation
C20_Witness ==
    /\ Len(aiMessages) = 5
    /\ aiMessages[3].sender = "ai"
    /\ aiMessages[5] = [sender |-> "error",
                        text |-> <<"Connection error: ",
                                   "Error invoking remote method 'ask-ai'">>]
    /\ ~ isAiLoading
    /\ calls = <<>>

\* C21: a toast is taken away by its own timer only. The timers all run for
\* 4000 ms, so they fire in the order of the calls and the message shown
\* belongs to the last of the pending ones: a timer that fires while a later
\* one is pending leaves the message shown.
C21_ToastDismissedByOwnTimer ==
    [][(ToastTimerFires /\ timers > 1 /\ toast # <<>>) => toast' = toast]_vars

\* whatever is shown is taken away in the end
ToastEventuallyCleared == (toast # <<>>) ~> (toast = <<>>)

\* a timer never blanks the window while no timer of the mounted layout is
\* pending, and every pending timer belongs to a call of showToast
ToastTimersCounted == timers \in 0..MaxTimers /\ (toast # <<>> => timers > 0)

====
